---------------------------- MODULE Spec2Model ----------------------------
(***************************************************************************)
(* A model of dtools' D64 disk-image engine (src/src/lib.rs): sector       *)
(* geometry, the BAM (free-space map) codec and its allocate/free/find     *)
(* operations, the directory walk, and the chained file reader/writer.     *)
(*                                                                         *)
(* Representation.  Bytes are 0..255.  Text is a sequence of code points.  *)
(* A 256-byte sector block is a function on 0..255, so that indices read   *)
(* as in the source.  The image buffer `data` (Vec<u8>, zero-filled by     *)
(* D64::new) is a function from byte offset to byte that stores only the   *)
(* non-zero bytes; its length is fixed by `tracks`.                        *)
(***************************************************************************)
EXTENDS Integers, Sequences, FiniteSets, TLC

VARIABLES
    tracks,   \* D64.tracks; 0 while no image has been constructed
    data,     \* D64.data, non-zero bytes only
    cur_bam,  \* the BAM value a caller holds between read_bam and write_bam
    res,      \* the last operation: its name, arguments and outcome
    walk,     \* the loop state of the trace_file / extract_file call in progress
    overflow_checks,  \* the build: TRUE when u8 overflow panics, FALSE when it wraps
    files,    \* history: name, content and start sector of each successful
              \* insert since the last format
    label,    \* history: the disk name and id last given to the image (img)
              \* and to the BAM value held (mem)
    hist      \* history: the operations on the BAM value held since read_bam,
              \* each with the BAM before it

vars == <<tracks, data, cur_bam, res, walk, overflow_checks, files, label, hist>>

----------------------------------------------------------------------------
(* Constants of lib.rs *)

D64_35_TRACKS_SIZE == 174848

D64_40_TRACKS_SIZE == 196608

SECTORS_PER_TRACK ==
    <<21, 21, 21, 21, 21, 21, 21, 21, 21, 21, 21, 21, 21, 21, 21, 21, 21,
      19, 19, 19, 19, 19, 19, 19,
      18, 18, 18, 18, 18, 18,
      17, 17, 17, 17, 17, 17, 17, 17, 17, 17>>

\* SECTORS_PER_TRACK[(track - 1) as usize]
Spt(track) == SECTORS_PER_TRACK[track]

Bytes == 0..255

\* [0u8; 256]
ZeroBlock == [i \in 0..255 |-> 0]

Ok(v) == [err |-> "Ok", val |-> v]

Err(e) == [err |-> e, val |-> <<>>]

----------------------------------------------------------------------------
(* u8 bit operations *)

\* bit `bit_idx` of `byte`: byte & (1 << bit_idx) != 0
BitSet(byte, bit_idx) == (byte \div (2 ^ bit_idx)) % 2 = 1

\* byte & !(1 << bit_idx)
ClearBit(byte, bit_idx) == IF BitSet(byte, bit_idx) THEN byte - 2 ^ bit_idx ELSE byte

\* byte | (1 << bit_idx)
SetBit(byte, bit_idx) == IF BitSet(byte, bit_idx) THEN byte ELSE byte + 2 ^ bit_idx

----------------------------------------------------------------------------
(* Text codec *)

\* the decoder with the pass-through range one byte short (0x20..=0x5E)
petscii_to_ascii_short(petscii) ==
    [i \in 1..Len(petscii) |->
        LET c == petscii[i] IN
        IF c >= 32 /\ c <= 94 THEN c
        ELSE IF c >= 193 /\ c <= 218 THEN c - 128
        ELSE 63]

petscii_to_ascii(petscii) ==
    [i \in 1..Len(petscii) |->
        LET c == petscii[i] IN
        IF c >= 32 /\ c <= 95 THEN c
        ELSE IF c >= 193 /\ c <= 218 THEN c - 128
        ELSE 63]

ascii_to_petscii(ascii) ==
    [i \in 1..Len(ascii) |->
        LET c == ascii[i] IN
        IF c >= 32 /\ c <= 95 THEN c
        ELSE IF c >= 97 /\ c <= 122 THEN c - 32
        ELSE 63]

\* char::is_whitespace, as str::trim uses it
IsWhitespace(c) == c \in {9, 10, 11, 12, 13, 32, 133, 160}

RECURSIVE TrimStart(_)
TrimStart(s) ==
    IF s # <<>> /\ IsWhitespace(Head(s)) THEN TrimStart(Tail(s)) ELSE s

RECURSIVE TrimEnd(_)
TrimEnd(s) ==
    IF s # <<>> /\ IsWhitespace(s[Len(s)])
    THEN TrimEnd(SubSeq(s, 1, Len(s) - 1))
    ELSE s

\* str::trim
Trim(s) == TrimEnd(TrimStart(s))

----------------------------------------------------------------------------
(* Image store *)

\* data.len() of an image built by D64::new / D64::from_file
DataLen(tr) == IF tr = 35 THEN D64_35_TRACKS_SIZE ELSE D64_40_TRACKS_SIZE

\* data[o]
Byte(d, o) == IF o \in DOMAIN d THEN d[o] ELSE 0

\* vec![0; size]
ZeroData == [o \in {} |-> 0]

\* D64::new: the size error unless tracks is 35 or 40
D64_new(t) ==
    IF t # 35 /\ t # 40 THEN Err("InvalidFileSize") ELSE Ok(ZeroData)

\* the loop of sector_offset: the byte size of tracks 1..track-1
RECURSIVE TrackStart(_)
TrackStart(track) ==
    IF track <= 1 THEN 0
    ELSE TrackStart(track - 1) + SECTORS_PER_TRACK[track - 1] * 256

\* the same loop run once too often (for t in 1..=track)
sector_offset_inclusive(tr, track, sector) ==
    IF track = 0 \/ track > tr \/ sector >= Spt(track)
    THEN Err("InvalidTrackSector")
    ELSE Ok(TrackStart(track + 1) + sector * 256)

sector_offset(tr, track, sector) ==
    IF track = 0 \/ track > tr \/ sector >= Spt(track)
    THEN Err("InvalidTrackSector")
    ELSE Ok(TrackStart(track) + sector * 256)

\* &self.data[offset..offset + 256]
Slice256(d, offset) == [i \in 0..255 |-> Byte(d, offset + i)]

\* self.data[offset..offset + 256].copy_from_slice(block)
CopyAt(d, offset, block) ==
    LET keep == {o \in DOMAIN d : o < offset \/ o >= offset + 256}
        new  == {offset + i : i \in {j \in 0..255 : block[j] # 0}}
    IN  [o \in keep \cup new |-> IF o \in keep THEN d[o] ELSE block[o - offset]]

read_sector(tr, d, track, sector) ==
    LET o == sector_offset(tr, track, sector) IN
    IF o.err # "Ok" THEN Err(o.err) ELSE Ok(Slice256(d, o.val))

\* write_sector copying to the range one byte further on
write_sector_shifted(tr, d, track, sector, block) ==
    LET o == sector_offset(tr, track, sector) IN
    IF o.err # "Ok" THEN Err(o.err) ELSE Ok(CopyAt(d, o.val + 1, block))

\* the new data, or the error with data untouched
write_sector(tr, d, track, sector, block) ==
    LET o == sector_offset(tr, track, sector) IN
    IF o.err # "Ok" THEN Err(o.err) ELSE Ok(CopyAt(d, o.val, block))

----------------------------------------------------------------------------
(* BAM: the decoded free-space map *)

\* BAM::from_sector_data
from_sector_data(block, tr) ==
    [tracks       |-> tr,
     free_sectors |-> [t \in 0..39 |-> IF t < tr THEN block[4 + t * 4] ELSE 0],
     bitmap       |-> [t \in 0..39 |->
                         [b \in 0..2 |-> IF t < tr THEN block[5 + b + t * 4] ELSE 0]],
     disk_name    |-> [i \in 0..15 |-> block[144 + i]],
     disk_id      |-> [i \in 0..1 |-> block[162 + i]],
     dos_type     |-> block[2]]

\* BAM::to_sector_data.  The name and the id are copied in last: with 40
\* tracks they replace what the loop wrote for tracks 36..39 and the last two
\* bitmap bytes of track 40.
to_sector_data(bam) ==
    [i \in 0..255 |->
        IF i = 0 THEN 18
        ELSE IF i = 1 THEN 1
        ELSE IF i = 2 THEN bam.dos_type
        ELSE IF i >= 144 /\ i < 160 THEN bam.disk_name[i - 144]
        ELSE IF i >= 162 /\ i < 164 THEN bam.disk_id[i - 162]
        ELSE IF i >= 4 /\ i < 4 + bam.tracks * 4
             THEN LET t == (i - 4) \div 4
                      k == (i - 4) % 4
                  IN  IF k = 0 THEN bam.free_sectors[t] ELSE bam.bitmap[t][k - 1]
        ELSE 0]

\* the range check shared by BAM::allocate_sector and BAM::free_sector
BamInvalid(bam, track, sector) ==
    track = 0 \/ track > bam.tracks \/ sector >= Spt(track)

\* BAM::allocate_sector.  `oc` is the build's overflow-checks setting: the u8
\* subtraction panics when it is on and wraps when it is off.  The bit is
\* cleared before the subtraction: a panic leaves the BAM with the bit cleared
\* and the count as it was, the value carried with the "Panic" outcome.
BAM_allocate_sector(bam, track, sector, oc) ==
    IF BamInvalid(bam, track, sector) THEN Err("InvalidTrackSector")
    ELSE
        LET track_idx == track - 1
            byte_idx  == sector \div 8
            bit_idx   == sector % 8
            free      == bam.free_sectors[track_idx]
            cleared   == [bam EXCEPT !.bitmap[track_idx][byte_idx] = ClearBit(@, bit_idx)]
        IN  IF ~BitSet(bam.bitmap[track_idx][byte_idx], bit_idx) THEN Ok(bam)
            ELSE IF free = 0 /\ oc THEN [err |-> "Panic", val |-> cleared]
            ELSE Ok([cleared EXCEPT !.free_sectors[track_idx] = (free + 255) % 256])

\* BAM::free_sector, with `oc` as above for the u8 addition; the bit is set
\* before the addition
BAM_free_sector(bam, track, sector, oc) ==
    IF BamInvalid(bam, track, sector) THEN Err("InvalidTrackSector")
    ELSE
        LET track_idx == track - 1
            byte_idx  == sector \div 8
            bit_idx   == sector % 8
            free      == bam.free_sectors[track_idx]
            marked    == [bam EXCEPT !.bitmap[track_idx][byte_idx] = SetBit(@, bit_idx)]
        IN  IF BitSet(bam.bitmap[track_idx][byte_idx], bit_idx) THEN Ok(bam)
            ELSE IF free = 255 /\ oc THEN [err |-> "Panic", val |-> marked]
            ELSE Ok([marked EXCEPT !.free_sectors[track_idx] = (free + 1) % 256])

\* the two nested loops of BAM::find_free_sector, from bit k = byte_idx * 8 + bit_idx on
RECURSIVE ScanBits(_, _, _)
ScanBits(bits, track_idx, k) ==
    IF k >= 24 THEN [err |-> "None", val |-> <<>>]
    ELSE IF BitSet(bits[k \div 8], k % 8) /\ k < SECTORS_PER_TRACK[track_idx + 1]
         THEN Ok(k)
         ELSE ScanBits(bits, track_idx, k + 1)

\* the scan without the test against the track's sector count
RECURSIVE ScanBitsUnchecked(_, _, _)
ScanBitsUnchecked(bits, track_idx, k) ==
    IF k >= 24 THEN [err |-> "None", val |-> <<>>]
    ELSE IF BitSet(bits[k \div 8], k % 8)
         THEN Ok(k)
         ELSE ScanBitsUnchecked(bits, track_idx, k + 1)

BAM_find_free_sector_unchecked(bam, track) ==
    IF track = 0 \/ track > bam.tracks THEN [err |-> "None", val |-> <<>>]
    ELSE ScanBitsUnchecked(bam.bitmap[track - 1], track - 1, 0)

\* BAM::find_free_sector: Some(sector) or None
BAM_find_free_sector(bam, track) ==
    IF track = 0 \/ track > bam.tracks THEN [err |-> "None", val |-> <<>>]
    ELSE ScanBits(bam.bitmap[track - 1], track - 1, 0)

\* BAM::get_free_sectors_count
get_free_sectors_count(bam, track) ==
    IF track = 0 \/ track > bam.tracks THEN Err("InvalidTrackSector")
    ELSE Ok(bam.free_sectors[track - 1])

\* a fixed-size byte array as a sequence
AsSeq(arr, n) == [i \in 1..n |-> arr[i - 1]]

\* BAM::get_disk_name
get_disk_name(bam) == petscii_to_ascii(AsSeq(bam.disk_name, 16))

\* BAM::get_disk_id
get_disk_id(bam) == petscii_to_ascii(AsSeq(bam.disk_id, 2))

\* BAM::set_disk_name; the slice index panics on a name longer than the field
set_disk_name(bam, name) ==
    LET name_bytes == ascii_to_petscii(name) IN
    IF Len(name_bytes) > 16 THEN Err("Panic")
    ELSE Ok([bam EXCEPT !.disk_name =
                [i \in 0..15 |-> IF i < Len(name_bytes) THEN name_bytes[i + 1] ELSE 160]])

\* BAM::set_disk_id; &id_bytes[..2] panics on an id shorter than 2
set_disk_id(bam, id) ==
    LET id_bytes == ascii_to_petscii(id) IN
    IF Len(id_bytes) < 2 THEN Err("Panic")
    ELSE Ok([bam EXCEPT !.disk_id = [i \in 0..1 |-> id_bytes[i + 1]]])

----------------------------------------------------------------------------
(* D64: BAM access *)

\* D64::read_bam; (18, 0) is a valid address on every image
read_bam(tr, d) == from_sector_data(read_sector(tr, d, 18, 0).val, tr)

\* D64::write_bam: the new data
write_bam(tr, d, bam) == write_sector(tr, d, 18, 0, to_sector_data(bam)).val

\* D64::allocate_sector: the new data, or the error
D64_allocate_sector(tr, d, track, sector, oc) ==
    LET r == BAM_allocate_sector(read_bam(tr, d), track, sector, oc) IN
    IF r.err # "Ok" THEN Err(r.err) ELSE Ok(write_bam(tr, d, r.val))

\* D64::free_sector: the new data, or the error
D64_free_sector(tr, d, track, sector, oc) ==
    LET r == BAM_free_sector(read_bam(tr, d), track, sector, oc) IN
    IF r.err # "Ok" THEN Err(r.err) ELSE Ok(write_bam(tr, d, r.val))

\* the loop of D64::find_free_sector, from `track` on
RECURSIVE FirstFreeFrom(_, _)
FirstFreeFrom(bam, track) ==
    IF track > bam.tracks THEN Err("DiskFull")
    ELSE LET s == BAM_find_free_sector(bam, track) IN
         IF s.err = "Ok" THEN Ok(<<track, s.val>>)
         ELSE FirstFreeFrom(bam, track + 1)

\* D64::find_free_sector
D64_find_free_sector(tr, d) == FirstFreeFrom(read_bam(tr, d), 1)

----------------------------------------------------------------------------
(* D64::format *)

\* the BAM block format builds; disk_id_bytes has length 2 here
FormatBamBlock(tr, disk_name_bytes, disk_id_bytes) ==
    [i \in 0..255 |->
        IF i = 0 THEN 18
        ELSE IF i = 1 THEN 1
        ELSE IF i = 2 THEN 65
        ELSE IF i >= 162 /\ i < 164 THEN disk_id_bytes[i - 161]
        ELSE IF i >= 144 /\ i < 144 + Len(disk_name_bytes) THEN disk_name_bytes[i - 143]
        ELSE IF i >= 4 /\ i < 4 + tr * 4
             THEN LET track_idx == (i - 4) \div 4
                      k         == (i - 4) % 4
                      sectors   == SECTORS_PER_TRACK[track_idx + 1]
                  IN  IF track_idx + 1 \in 18..19 THEN 0
                      ELSE IF k = 0 THEN sectors
                      ELSE IF k = 3 /\ sectors <= 16 THEN 2 ^ sectors - 1
                      ELSE 255
        ELSE 0]

\* the directory block format writes: dir[1] = 0xFF
FormatDirBlock == [i \in 0..255 |-> IF i = 1 THEN 255 ELSE 0]

\* D64::format: the new data.  copy_from_slice panics unless the id has exactly
\* 2 bytes, and the name slice panics past the end of the block.
D64_format(tr, disk_name, disk_id) ==
    LET disk_name_bytes == ascii_to_petscii(disk_name)
        disk_id_bytes   == ascii_to_petscii(disk_id)
    IN  IF 144 + Len(disk_name_bytes) > 256 \/ Len(disk_id_bytes) # 2
        THEN Err("Panic")
        ELSE LET d1 == write_sector(tr, ZeroData, 18, 0,
                           FormatBamBlock(tr, disk_name_bytes, disk_id_bytes)).val
             IN  Ok(write_sector(tr, d1, 18, 1, FormatDirBlock).val)

----------------------------------------------------------------------------
(* Directory *)

\* (0..256).step_by(32)
SlotOffsets == {32 * k : k \in 0..7}

\* &data[i + 5..i + 5 + n] as a sequence
NameField(block, i, n) == [k \in 1..n |-> block[i + 5 + (k - 1)]]

\* file_type != 0 && file_type & 0x07 != 0
Visible(file_type) == file_type # 0 /\ file_type % 8 # 0

\* the slots of a sector that find_file accepts for `filename`
Matches(block, filename) ==
    {i \in SlotOffsets :
        /\ Visible(block[i + 2])
        /\ Trim(petscii_to_ascii(NameField(block, i, 16))) = filename}

Min(S) == CHOOSE x \in S : \A y \in S : x <= y

\* The loop of D64::find_file from directory sector `sector`.  The loop has no
\* visited set: coming back to a sector in `seen` repeats the same reads for
\* ever, which is the outcome "Hang".
RECURSIVE FindFileFrom(_, _, _, _, _)
FindFileFrom(tr, d, filename, sector, seen) ==
    LET r == read_sector(tr, d, 18, sector) IN
    IF r.err # "Ok" THEN Err(r.err)
    ELSE LET block == r.val
             m     == Matches(block, filename)
         IN  IF m # {} THEN Ok(<<block[Min(m) + 3], block[Min(m) + 4]>>)
             ELSE IF block[1] = 0 THEN Err("FileNotFound")
             ELSE IF block[1] \in seen \cup {sector} THEN Err("Hang")
             ELSE FindFileFrom(tr, d, filename, block[1], seen \cup {sector})

\* D64::find_file
find_file(tr, d, filename) == FindFileFrom(tr, d, filename, 1, {})

\* position(|&x| x == 0xA0).unwrap_or(16) on the 16-byte name field
NameEnd(block, i) ==
    LET hits == {k \in 0..15 : block[i + 5 + k] = 160} IN
    IF hits = {} THEN 16 ELSE Min(hits)

\* the names list_files pushes for slots i, i + 32, ... of one sector
RECURSIVE SectorNames(_, _)
SectorNames(block, i) ==
    IF i >= 256 THEN <<>>
    ELSE IF Visible(block[i + 2])
         THEN <<petscii_to_ascii(NameField(block, i, NameEnd(block, i)))>>
              \o SectorNames(block, i + 32)
         ELSE SectorNames(block, i + 32)

\* the loop of D64::list_files without the test that the link stays on track 18
RECURSIVE ListFromAnyTrack(_, _, _, _, _)
ListFromAnyTrack(tr, d, sector, visited_sectors, found) ==
    IF sector \in visited_sectors THEN Err("InvalidTrackSector")
    ELSE LET r == read_sector(tr, d, 18, sector) IN
         IF r.err # "Ok" THEN Err(r.err)
         ELSE LET block       == r.val
                  names       == found \o SectorNames(block, 0)
                  next_track  == block[0]
                  next_sector == block[1]
              IN  IF next_track = 0 \/ (next_track = 18 /\ next_sector = 1)
                  THEN Ok(names)
                  ELSE IF next_sector >= SECTORS_PER_TRACK[18]
                  THEN Err("InvalidTrackSector")
                  ELSE ListFromAnyTrack(tr, d, next_sector,
                                        visited_sectors \cup {sector}, names)

\* the loop of D64::list_files
RECURSIVE ListFrom(_, _, _, _, _)
ListFrom(tr, d, sector, visited_sectors, found) ==
    IF sector \in visited_sectors THEN Err("InvalidTrackSector")
    ELSE LET r == read_sector(tr, d, 18, sector) IN
         IF r.err # "Ok" THEN Err(r.err)
         ELSE LET block       == r.val
                  names       == found \o SectorNames(block, 0)
                  next_track  == block[0]
                  next_sector == block[1]
              IN  IF next_track = 0 \/ (next_track = 18 /\ next_sector = 1)
                  THEN Ok(names)
                  ELSE IF next_track # 18 \/ next_sector >= SECTORS_PER_TRACK[18]
                  THEN Err("InvalidTrackSector")
                  ELSE ListFrom(tr, d, next_sector,
                                visited_sectors \cup {sector}, names)

\* D64::list_files
list_files(tr, d) == ListFrom(tr, d, 1, {}, <<>>)

\* visited_sectors when the loop of D64::list_files is left: the directory
\* sectors the call has read
RECURSIVE ListVisitedFrom(_, _, _, _)
ListVisitedFrom(tr, d, sector, visited_sectors) ==
    IF sector \in visited_sectors THEN visited_sectors
    ELSE LET r    == read_sector(tr, d, 18, sector)
             seen == visited_sectors \cup {sector}
         IN  IF r.err # "Ok" THEN seen
             ELSE LET next_track  == r.val[0]
                      next_sector == r.val[1]
                  IN  IF next_track = 0 \/ (next_track = 18 /\ next_sector = 1)
                      THEN seen
                      ELSE IF next_track # 18 \/ next_sector >= SECTORS_PER_TRACK[18]
                      THEN seen
                      ELSE ListVisitedFrom(tr, d, next_sector, seen)

\* D64::create_dir_entry; the slice index panics on a name longer than 27 bytes
create_dir_entry(filename, track, sector) ==
    LET name_bytes == ascii_to_petscii(filename) IN
    IF 5 + Len(name_bytes) > 32 THEN Err("Panic")
    ELSE Ok([k \in 0..31 |->
                IF k = 2 THEN 130
                ELSE IF k = 3 THEN track
                ELSE IF k = 4 THEN sector
                ELSE IF k >= 5 /\ k < 5 + Len(name_bytes) THEN name_bytes[k - 4]
                ELSE 0])

\* the copy that leaves bytes 0-1 of the slot (the sector's link in slot 0) alone
PutEntryKeepLink(block, i, entry) ==
    [k \in 0..255 |-> IF k >= i + 2 /\ k < i + 32 THEN entry[k - i] ELSE block[k]]

\* data[i..i + 32].copy_from_slice(&entry)
PutEntry(block, i, entry) ==
    [k \in 0..255 |-> IF k >= i /\ k < i + 32 THEN entry[k - i] ELSE block[k]]

\* The loop of D64::write_dir_entry from directory sector `sector`: the new
\* data, or the error.  "Hang" as in FindFileFrom.
RECURSIVE WriteDirEntryFrom(_, _, _, _, _)
WriteDirEntryFrom(tr, d, entry, sector, seen) ==
    LET r == read_sector(tr, d, 18, sector) IN
    IF r.err # "Ok" THEN Err(r.err)
    ELSE LET block == r.val
             empty == {i \in SlotOffsets : block[i + 2] = 0}
         IN  IF empty # {}
             THEN LET i == Min(empty)
                  IN  write_sector(tr, d, 18, sector, PutEntry(block, i, entry))
             ELSE IF block[1] = 0 THEN Err("DiskFull")
             ELSE IF block[1] \in seen \cup {sector} THEN Err("Hang")
             ELSE WriteDirEntryFrom(tr, d, entry, block[1], seen \cup {sector})

\* D64::write_dir_entry
write_dir_entry(tr, d, entry) == WriteDirEntryFrom(tr, d, entry, 1, {})

----------------------------------------------------------------------------
(* File chains *)

\* The walk state with which trace_file and extract_file enter their loop.
\* `reads` counts the sectors read and `visited` holds their addresses: both
\* are history, the code keeps neither.
WalkStart(op, filename, start) ==
    [op |-> op, name |-> filename, pc |-> "reading", err |-> "Ok",
     track |-> start[1], sector |-> start[2],
     sectors |-> <<>>, content |-> <<>>, reads |-> 0, visited |-> {}]

WalkFailed(op, filename, e) ==
    [op |-> op, name |-> filename, pc |-> "error", err |-> e,
     track |-> 0, sector |-> 0, sectors |-> <<>>, content |-> <<>>, reads |-> 0,
     visited |-> {}]

WalkIdle ==
    [op |-> "none", name |-> <<>>, pc |-> "idle", err |-> "Ok",
     track |-> 0, sector |-> 0, sectors |-> <<>>, content |-> <<>>, reads |-> 0,
     visited |-> {}]

\* one iteration of the loop of D64::trace_file
TraceStep(tr, d, w) ==
    LET pushed == [w EXCEPT !.sectors = Append(@, <<w.track, w.sector>>),
                            !.reads = @ + 1]
        r      == read_sector(tr, d, w.track, w.sector)
    IN  IF r.err # "Ok" THEN [pushed EXCEPT !.pc = "error", !.err = r.err]
        ELSE IF r.val[0] = 0 THEN [pushed EXCEPT !.pc = "done"]
        ELSE [pushed EXCEPT !.track = r.val[0], !.sector = r.val[1]]

\* one iteration of the loop of D64::extract_file; the slice
\* data[2..2 + bytes_to_read] panics when it ends past the 256-byte sector
ExtractStep(tr, d, w) ==
    LET r == read_sector(tr, d, w.track, w.sector) IN
    IF r.err # "Ok" THEN [w EXCEPT !.pc = "error", !.err = r.err, !.reads = @ + 1]
    ELSE LET next_track    == r.val[0]
             next_sector   == r.val[1]
             bytes_to_read == IF next_track = 0 THEN next_sector ELSE 254
         IN  IF 2 + bytes_to_read > 256
             THEN [w EXCEPT !.pc = "error", !.err = "Panic", !.reads = @ + 1]
             ELSE LET got == [w EXCEPT
                                !.content = @ \o [k \in 1..bytes_to_read |-> r.val[1 + k]],
                                !.reads = @ + 1]
                  IN  IF next_track = 0 THEN [got EXCEPT !.pc = "done"]
                      ELSE [got EXCEPT !.track = next_track, !.sector = next_sector]

WalkStep(tr, d, w) ==
    IF w.op = "trace" THEN TraceStep(tr, d, w) ELSE ExtractStep(tr, d, w)

\* The loop run to its end.  Neither loop has a visited set: on reaching a
\* sector it has already read the walk repeats for ever, the outcome "Hang".
RECURSIVE RunWalk(_, _, _, _)
RunWalk(tr, d, w, seen) ==
    IF w.pc # "reading" THEN w
    ELSE IF <<w.track, w.sector>> \in seen THEN [w EXCEPT !.pc = "hang", !.err = "Hang"]
    ELSE RunWalk(tr, d, WalkStep(tr, d, w), seen \cup {<<w.track, w.sector>>})

\* find_file(filename)? at the head of trace_file and extract_file
BeginWalk(tr, d, op, filename) ==
    LET f == find_file(tr, d, filename) IN
    IF f.err # "Ok" THEN WalkFailed(op, filename, f.err)
    ELSE WalkStart(op, filename, f.val)

\* D64::extract_file: Ok(content) or the error
extract_file(tr, d, filename) ==
    LET w == RunWalk(tr, d, BeginWalk(tr, d, "extract", filename), {}) IN
    IF w.pc = "done" THEN Ok(w.content) ELSE Err(w.err)

\* D64::trace_file: Ok(sectors) or the error
trace_file(tr, d, filename) ==
    LET w == RunWalk(tr, d, BeginWalk(tr, d, "trace", filename), {}) IN
    IF w.pc = "done" THEN Ok(w.sectors) ELSE Err(w.err)

\* The while loop of D64::insert_file.  The result carries the data in every
\* case: an error leaves the sectors written before it in place.
RECURSIVE InsertLoop(_, _, _, _, _)
InsertLoop(tr, d, track, sector, remaining) ==
    IF remaining = <<>> THEN [err |-> "Ok", val |-> d]
    ELSE IF Len(remaining) > 254 /\ track > 40 THEN [err |-> "Panic", val |-> d]
    ELSE
        LET more           == Len(remaining) > 254
            next           == IF more
                              THEN IF sector + 1 >= Spt(track)
                                   THEN <<track + 1, 0>>
                                   ELSE <<track, sector + 1>>
                              ELSE <<0, 0>>
            bytes_to_write == IF more THEN 254 ELSE Len(remaining)
            sector_data    ==
                [k \in 0..255 |->
                    IF k = 0 THEN (IF more THEN track ELSE 0)
                    ELSE IF k = 1 THEN (IF more THEN sector + 1 ELSE Len(remaining))
                    ELSE IF k < 2 + bytes_to_write THEN remaining[k - 1]
                    ELSE 0]
            w              == write_sector(tr, d, track, sector, sector_data)
        IN  IF w.err # "Ok" THEN [err |-> w.err, val |-> d]
            ELSE IF next[1] = 0 THEN [err |-> "Ok", val |-> w.val]
            ELSE InsertLoop(tr, w.val, next[1], next[2],
                            SubSeq(remaining, bytes_to_write + 1, Len(remaining)))

\* D64::insert_file: [err, val |-> the data afterwards, start |-> the start sector]
insert_file(tr, d, filename, content) ==
    LET f == D64_find_free_sector(tr, d) IN
    IF f.err # "Ok" THEN [err |-> f.err, val |-> d, start |-> <<0, 0>>]
    ELSE
        LET e == create_dir_entry(filename, f.val[1], f.val[2]) IN
        IF e.err # "Ok" THEN [err |-> e.err, val |-> d, start |-> f.val]
        ELSE
            LET w == write_dir_entry(tr, d, e.val) IN
            IF w.err # "Ok" THEN [err |-> w.err, val |-> d, start |-> f.val]
            ELSE LET r == InsertLoop(tr, w.val, f.val[1], f.val[2], content)
                 IN  [err |-> r.err, val |-> r.val, start |-> f.val]

----------------------------------------------------------------------------
(* Inputs *)

\* "TEST FILE"
NameTestFile == <<84, 69, 83, 84, 32, 70, 73, 76, 69>>

\* "ANOTHER FILE"
NameAnotherFile == <<65, 78, 79, 84, 72, 69, 82, 32, 70, 73, 76, 69>>

\* "A"
NameA == <<65>>

\* "ABCDEFGHIJKLMNOP", as long as the name field
NameSixteen == [i \in 1..16 |-> 64 + i]

\* "TEST DISK"
NameTestDisk == <<84, 69, 83, 84, 32, 68, 73, 83, 75>>

\* "0123456789:;<=>?", as long as the disk-name field
DiskNameSixteen == [i \in 1..16 |-> 47 + i]

\* "2A" and "01"
DiskIds == {<<50, 65>>, <<48, 49>>}

DiskNames == {NameTestDisk, DiskNameSixteen}

FileNames == {NameTestFile, NameAnotherFile, NameA, NameSixteen}

\* "Hello, World!"
HelloWorld == <<72, 101, 108, 108, 111, 44, 32, 87, 111, 114, 108, 100, 33>>

\* the longest file content drawn
MaxContentLen == 254

\* the number of inserts after a format
MaxInserts == 2

\* n bytes 1, 2, ..., 255, 0, 1, ...
Pattern(n) == [i \in 1..n |-> i % 256]

Contents == {HelloWorld, <<0, 9, 0>>, Pattern(MaxContentLen)}

NoBam == [tracks |-> 0]

NoLabel == [name |-> <<>>, id |-> <<>>]

Result(op, args, err, val) == [op |-> op, args |-> args, err |-> err, val |-> val]

----------------------------------------------------------------------------
(* Operations on the image *)

\* D64::new(t), from no image
New(t) ==
    /\ tracks = 0
    /\ LET r == D64_new(t) IN
       /\ tracks' = IF r.err = "Ok" THEN t ELSE tracks
       /\ data' = IF r.err = "Ok" THEN r.val ELSE data
       /\ res' = Result("new", <<t>>, r.err, <<>>)
    /\ UNCHANGED <<cur_bam, walk, overflow_checks, files, label, hist>>

\* the geometry query behind read_sector and write_sector
SectorOffset(track, sector) ==
    /\ tracks # 0
    /\ LET r == sector_offset(tracks, track, sector) IN
       res' = Result("sector_offset", <<track, sector>>, r.err, r.val)
    /\ UNCHANGED <<tracks, data, cur_bam, walk, overflow_checks, files, label, hist>>

\* a record of hist about the BAM value the caller holds, which outlives a
\* format of the image; a snapshot of the image before an insert does not
OnHeldBam(h) == h.op \in {"allocate", "free"}

\* D64::format(disk_name, disk_id).  A panic ends the process before the image
\* is saved, so the image is as before.
Format(disk_name, disk_id) ==
    /\ tracks # 0
    /\ walk.pc # "reading"
    /\ LET r == D64_format(tracks, disk_name, disk_id) IN
       /\ data' = IF r.err = "Ok" THEN r.val ELSE data
       /\ res' = Result("format", <<disk_name, disk_id>>, r.err, <<>>)
       /\ files' = IF r.err = "Ok" THEN <<>> ELSE files
       /\ label' = IF r.err = "Ok"
                   THEN [label EXCEPT !.img = [name |-> disk_name, id |-> disk_id]]
                   ELSE label
       /\ hist' = IF r.err = "Ok" THEN SelectSeq(hist, OnHeldBam) ELSE hist
    /\ UNCHANGED <<tracks, cur_bam, walk, overflow_checks>>

\* D64::insert_file(filename, content), at most `limit` successes per format
InsertUpTo(limit, filename, content) ==
    /\ tracks # 0
    /\ walk.pc # "reading"
    /\ Len(files) < limit
    /\ LET r == insert_file(tracks, data, filename, content) IN
       /\ data' = r.val
       /\ res' = Result("insert", <<filename, content>>, r.err, r.start)
       /\ files' = IF r.err = "Ok"
                   THEN Append(files, [name |-> filename, content |-> content,
                                       start |-> r.start])
                   ELSE files
       /\ hist' = <<[op |-> "insert", data |-> data]>>
    /\ UNCHANGED <<tracks, cur_bam, walk, overflow_checks, label>>

Insert(filename, content) == InsertUpTo(MaxInserts, filename, content)

\* D64::extract_file(filename), the whole call
Extract(filename) ==
    /\ tracks # 0
    /\ walk.pc # "reading"
    /\ LET r == extract_file(tracks, data, filename) IN
       res' = Result("extract", <<filename>>, r.err, r.val)
    /\ UNCHANGED <<tracks, data, cur_bam, walk, overflow_checks, files, label, hist>>

\* D64::list_files()
List ==
    /\ tracks # 0
    /\ walk.pc # "reading"
    /\ LET r == list_files(tracks, data) IN
       res' = Result("list", <<>>, r.err, r.val)
    /\ UNCHANGED <<tracks, data, cur_bam, walk, overflow_checks, files, label, hist>>

\* D64::from_file on a file of one of the two sizes: tracks from the length,
\* data whatever the file holds
D64_from_file(tr, bytes) == [tracks |-> tr, data |-> bytes]

\* D64::read_bam() into the value the caller holds
ReadBam ==
    /\ tracks # 0
    /\ cur_bam' = read_bam(tracks, data)
    /\ res' = Result("read_bam", <<>>, "Ok", <<>>)
    /\ label' = [label EXCEPT !.mem = label.img]
    /\ hist' = <<>>
    /\ UNCHANGED <<tracks, data, walk, overflow_checks, files>>

\* D64::write_bam(&bam) of the value the caller holds
WriteBam ==
    /\ cur_bam.tracks # 0
    /\ data' = write_bam(tracks, data, cur_bam)
    /\ res' = Result("write_bam", <<>>, "Ok", <<>>)
    /\ label' = [label EXCEPT !.img = label.mem]
    /\ UNCHANGED <<tracks, cur_bam, walk, overflow_checks, files, hist>>

\* the operations on the held BAM value done since read_bam
OpsDone == IF hist = <<>> THEN 0 ELSE hist[Len(hist)].n

\* hist with one more operation, the last two kept
Logged(op, track, sector, err) ==
    LET rec == [op |-> op, track |-> track, sector |-> sector, err |-> err,
                before |-> cur_bam, n |-> OpsDone + 1]
    IN  IF hist = <<>> THEN <<rec>> ELSE <<hist[Len(hist)], rec>>

\* the number of allocate / free calls on one held BAM value
MaxBamOps == 2

\* bam.allocate_sector(track, sector); after a panic the caller that catches
\* it holds the BAM as the unwinding left it
BamAllocate(track, sector) ==
    /\ cur_bam.tracks # 0
    /\ OpsDone < MaxBamOps
    /\ LET r == BAM_allocate_sector(cur_bam, track, sector, overflow_checks) IN
       /\ cur_bam' = IF r.err \in {"Ok", "Panic"} THEN r.val ELSE cur_bam
       /\ res' = Result("allocate", <<track, sector>>, r.err, <<>>)
       /\ hist' = Logged("allocate", track, sector, r.err)
    /\ UNCHANGED <<tracks, data, walk, overflow_checks, files, label>>

\* bam.free_sector(track, sector)
BamFree(track, sector) ==
    /\ cur_bam.tracks # 0
    /\ OpsDone < MaxBamOps
    /\ LET r == BAM_free_sector(cur_bam, track, sector, overflow_checks) IN
       /\ cur_bam' = IF r.err \in {"Ok", "Panic"} THEN r.val ELSE cur_bam
       /\ res' = Result("free", <<track, sector>>, r.err, <<>>)
       /\ hist' = Logged("free", track, sector, r.err)
    /\ UNCHANGED <<tracks, data, walk, overflow_checks, files, label>>

\* bam.find_free_sector(track)
BamFindFree(track) ==
    /\ cur_bam.tracks # 0
    /\ LET r == BAM_find_free_sector(cur_bam, track) IN
       res' = Result("find_free", <<track>>, r.err, r.val)
    /\ UNCHANGED <<tracks, data, cur_bam, walk, overflow_checks, files, label, hist>>

\* bam.set_disk_name(name)
BamSetDiskName(name) ==
    /\ cur_bam.tracks # 0
    /\ LET r == set_disk_name(cur_bam, name) IN
       /\ cur_bam' = IF r.err = "Ok" THEN r.val ELSE cur_bam
       /\ res' = Result("set_disk_name", <<name>>, r.err, <<>>)
       /\ label' = IF r.err = "Ok" THEN [label EXCEPT !.mem.name = name] ELSE label
    /\ UNCHANGED <<tracks, data, walk, overflow_checks, files, hist>>

\* bam.set_disk_id(id)
BamSetDiskId(id) ==
    /\ cur_bam.tracks # 0
    /\ LET r == set_disk_id(cur_bam, id) IN
       /\ cur_bam' = IF r.err = "Ok" THEN r.val ELSE cur_bam
       /\ res' = Result("set_disk_id", <<id>>, r.err, <<>>)
       /\ label' = IF r.err = "Ok" THEN [label EXCEPT !.mem.id = id] ELSE label
    /\ UNCHANGED <<tracks, data, walk, overflow_checks, files, hist>>

\* D64::write_sector(track, sector, block) with a 256-byte block, as the
\* write command calls it
RawWrite(track, sector, block) ==
    /\ tracks # 0
    /\ walk.pc # "reading"
    /\ LET r == write_sector(tracks, data, track, sector, block) IN
       /\ data' = IF r.err = "Ok" THEN r.val ELSE data
       /\ res' = Result("write_sector", <<track, sector>>, r.err, <<>>)
    /\ UNCHANGED <<tracks, cur_bam, walk, overflow_checks, files, label, hist>>

\* the outcome of a walk that has left its loop
WalkResult(w) ==
    Result(w.op, <<w.name>>, w.err,
           IF w.pc # "done" THEN <<>>
           ELSE IF w.op = "trace" THEN w.sectors ELSE w.content)

\* the head of trace_file / extract_file: find_file(filename)?, then the loop
StartWalk(op, filename) ==
    /\ tracks # 0
    /\ walk.pc # "reading"
    /\ walk' = BeginWalk(tracks, data, op, filename)
    /\ res' = IF walk'.pc = "reading"
              THEN Result(op, <<filename>>, "Running", <<>>)
              ELSE WalkResult(walk')
    /\ UNCHANGED <<tracks, data, cur_bam, overflow_checks, files, label, hist>>

\* the reads one walk is followed for
MaxWalkReads == 5

\* one iteration of the loop of the call in progress
WalkOn ==
    /\ walk.pc = "reading"
    /\ walk.reads < MaxWalkReads
    /\ walk' = [WalkStep(tracks, data, walk) EXCEPT
                  !.visited = walk.visited \cup {<<walk.track, walk.sector>>}]
    /\ res' = IF walk'.pc = "reading" THEN res ELSE WalkResult(walk')
    /\ UNCHANGED <<tracks, data, cur_bam, overflow_checks, files, label, hist>>

----------------------------------------------------------------------------
(* Spec: a 35-track image from D64::new, formatted, with files inserted,     *)
(* listed and extracted                                                      *)

NoLabels == [img |-> NoLabel, mem |-> NoLabel]

Init ==
    /\ tracks = 35
    /\ data = D64_new(35).val
    /\ cur_bam = NoBam
    /\ res = Result("new", <<35>>, "Ok", <<>>)
    /\ walk = WalkIdle
    /\ overflow_checks = TRUE
    /\ files = <<>>
    /\ label = NoLabels
    /\ hist = <<>>

Next ==
    \/ Format(NameTestDisk, <<50, 65>>)
    \/ \E f \in FileNames, c \in Contents : Insert(f, c)
    \/ \E f \in FileNames : Extract(f)
    \/ List

Spec == Init /\ [][Next]_vars

\* the sectors trace_file's loop visits from `start` in the image as it is now
ChainFrom(start) ==
    LET w == RunWalk(tracks, data, WalkStart("trace", <<>>, start), {}) IN
    {w.sectors[k] : k \in 1..Len(w.sectors)}

\* the BAM bit of (track, sector): TRUE when marked free
BamBit(b, track, sector) == BitSet(b.bitmap[track - 1][sector \div 8], sector % 8)

InPassThrough(s) == \A k \in 1..Len(s) : s[k] >= 32 /\ s[k] <= 95

\* C1: on a 35-track image made by new and format, after insert(n, c)
\* succeeds for a name n of 1..16 pass-through characters and a content c of
\* 1..254 bytes, extract(n) returns exactly c.
C1_InsertExtractRoundTrip ==
    ( /\ res.op = "insert" /\ res.err = "Ok"
      /\ tracks = 35 /\ Len(files) = 1
      /\ Len(res.args[1]) \in 1..16 /\ InPassThrough(res.args[1])
      /\ Len(res.args[2]) \in 1..254 )
    => extract_file(tracks, data, res.args[1]) = Ok(res.args[2])

\* the names inserted since format are pairwise distinct
DistinctNames == \A i, j \in 1..Len(files) : files[i].name = files[j].name => i = j

\* C2: after k inserts (1 <= k <= 8) of distinct names on a freshly formatted
\* 35-track image, list() returns exactly the inserted names, character for
\* character, in insertion order.
C2_ListReturnsInsertedNames ==
    ( /\ tracks = 35 /\ Len(files) \in 1..8 /\ DistinctNames
      /\ \A i \in 1..Len(files) :
            Len(files[i].name) \in 1..16 /\ InPassThrough(files[i].name) )
    => list_files(tracks, data) = Ok([i \in 1..Len(files) |-> files[i].name])

\* C7: after a successful insert on a formatted image every sector of the
\* file's chain, its start sector included, is marked allocated (bit 0) in
\* the BAM stored in the image, and each track's free count is lower by the
\* number of sectors newly claimed on it.
C7_InsertMarksAllocated ==
    (res.op = "insert" /\ res.err = "Ok") =>
        LET f     == files[Len(files)]
            chain == ChainFrom(f.start)
            now   == read_bam(tracks, data)
            was   == read_bam(tracks, hist[1].data)
        IN  /\ f.start \in chain
            /\ \A p \in chain : ~BamBit(now, p[1], p[2])
            /\ \A t \in 1..tracks :
                  now.free_sectors[t - 1] =
                      was.free_sectors[t - 1]
                      - Cardinality({p \in chain : p[1] = t /\ BamBit(was, p[1], p[2])})

\* C8: after any sequence of successful inserts on a freshly formatted image
\* the sector chains of distinct files are disjoint, and extract of the first
\* file still returns the first file's content.
C8_ChainsDisjoint ==
    /\ \A i, j \in 1..Len(files) :
          i < j => ChainFrom(files[i].start) \cap ChainFrom(files[j].start) = {}
    /\ (Len(files) >= 2 /\ Len(files[1].name) = 16 /\ DistinctNames)
          => extract_file(tracks, data, files[1].name) = Ok(files[1].content)

----------------------------------------------------------------------------
(* SpecGeom: D64::new with any track count, then the geometry queries        *)

\* the largest track count and track number drawn
MaxTrackArg == 41

\* the largest sector number drawn, besides 255
MaxSectorArg == 22

InitNoImage ==
    /\ tracks = 0
    /\ data = ZeroData
    /\ cur_bam = NoBam
    /\ res = Result("none", <<>>, "Ok", <<>>)
    /\ walk = WalkIdle
    /\ overflow_checks = TRUE
    /\ files = <<>>
    /\ label = NoLabels
    /\ hist = <<>>

NextGeom ==
    \/ \E t \in 0..MaxTrackArg : New(t)
    \/ \E t \in 0..MaxTrackArg, s \in (0..MaxSectorArg) \cup {255} : SectorOffset(t, s)

SpecGeom == InitNoImage /\ [][NextGeom]_vars

\* the addresses sector_offset must accept on an image of tr tracks
ValidPairs(tr) == {p \in (1..tr) \X (0..20) : p[2] < SECTORS_PER_TRACK[p[1]]}

\* C4: on an image of 35 or 40 tracks sector_offset maps the valid (track,
\* sector) pairs one-to-one onto the multiples of 256 below the buffer
\* length, and answers InvalidTrackSector for every other pair; D64::new with
\* any other track count answers InvalidFileSize.
C4_SectorAddressing ==
    /\ res.op = "new" =>
          IF res.args[1] \in {35, 40}
          THEN /\ res.err = "Ok"
               /\ {sector_offset(tracks, p[1], p[2]).val : p \in ValidPairs(tracks)}
                     = {256 * k : k \in 0..(DataLen(tracks) \div 256 - 1)}
          ELSE res.err = "InvalidFileSize" /\ tracks = 0
    /\ res.op = "sector_offset" =>
          IF <<res.args[1], res.args[2]>> \in ValidPairs(tracks)
          THEN /\ res.err = "Ok"
               /\ res.val % 256 = 0
               /\ res.val >= 0 /\ res.val + 256 <= DataLen(tracks)
               /\ \A p \in ValidPairs(tracks) :
                     sector_offset(tracks, p[1], p[2]).val = res.val
                        => p = <<res.args[1], res.args[2]>>
          ELSE res.err = "InvalidTrackSector"

\* the last sector of a 35-track image has been addressed
C4_Witness ==
    /\ tracks = 35
    /\ res.op = "sector_offset" /\ res.args = <<35, 16>>
    /\ res.err = "Ok" /\ res.val = D64_35_TRACKS_SIZE - 256

----------------------------------------------------------------------------
(* SpecLabel: the disk label through format and through read_bam,            *)
(* set_disk_name / set_disk_id, write_bam                                    *)

InitImage ==
    /\ tracks \in {35, 40}
    /\ data = D64_new(tracks).val
    /\ cur_bam = NoBam
    /\ res = Result("new", <<tracks>>, "Ok", <<>>)
    /\ walk = WalkIdle
    /\ overflow_checks = TRUE
    /\ files = <<>>
    /\ label = NoLabels
    /\ hist = <<>>

NextLabel ==
    \/ \E n \in DiskNames, id \in DiskIds : Format(n, id)
    \/ ReadBam
    \/ \E n \in DiskNames : BamSetDiskName(n)
    \/ \E id \in DiskIds : BamSetDiskId(id)
    \/ WriteBam

SpecLabel == InitImage /\ [][NextLabel]_vars

\* C3: after format(name, id), and after set_disk_name(name) / set_disk_id(id)
\* followed by write_bam, a fresh read_bam gives a BAM whose get_disk_name()
\* is exactly name and whose get_disk_id() is exactly id (names of 1..16
\* pass-through characters, ids of 2).
C3_DiskLabelRoundTrip ==
    res.op = "read_bam" =>
        /\ label.img.name # <<>> => get_disk_name(cur_bam) = label.img.name
        /\ label.img.id # <<>> => get_disk_id(cur_bam) = label.img.id

\* D64::allocate_sector(track, sector): read_bam, BAM::allocate_sector,
\* write_bam; an error or a panic comes before write_bam, so the image keeps
\* its bytes
D64Allocate(track, sector) ==
    /\ tracks # 0
    /\ walk.pc # "reading"
    /\ LET r == D64_allocate_sector(tracks, data, track, sector, overflow_checks) IN
       /\ data' = IF r.err = "Ok" THEN r.val ELSE data
       /\ res' = Result("d64_allocate", <<track, sector>>, r.err, <<>>)
    /\ UNCHANGED <<tracks, cur_bam, walk, overflow_checks, files, label, hist>>

----------------------------------------------------------------------------
(* SpecBam: allocate_sector and free_sector on the BAM read from a new or a  *)
(* formatted image of either size, or from a 40-track image on which the     *)
(* allocate command has run up to seventeen times, in either build           *)

InitBam ==
    /\ tracks \in {35, 40}
    /\ data = D64_new(tracks).val
    /\ cur_bam = NoBam
    /\ res = Result("new", <<tracks>>, "Ok", <<>>)
    /\ walk = WalkIdle
    /\ overflow_checks \in BOOLEAN
    /\ files = <<>>
    /\ label = NoLabels
    /\ hist = <<>>

\* the last sector of track 1, and the sector of track 40 whose bit shares a
\* BAM byte with the first character of the disk id
BamArgs == {<<1, 20>>, <<40, 9>>}

\* the free count the image stores for track 40; allocate_sector(40, 9) runs
\* on the image while it is not zero (the call after that is SpecAlloc's)
StoredCount == read_bam(tracks, data).free_sectors[39]

NextBam ==
    \/ Format(NameTestDisk, <<50, 65>>)
    \/ (tracks = 40 /\ StoredCount > 0 /\ D64Allocate(40, 9))
    \/ ReadBam
    \/ \E p \in BamArgs : BamAllocate(p[1], p[2])
    \/ \E p \in BamArgs : BamFree(p[1], p[2])

SpecBam == InitBam /\ [][NextBam]_vars

\* BAM b2 differs from b1 at most in the entry of `track`
SameButTrack(b1, b2, track) ==
    /\ \A t \in 0..39 :
          t # track - 1 =>
             b2.free_sectors[t] = b1.free_sectors[t] /\ b2.bitmap[t] = b1.bitmap[t]
    /\ b2.disk_name = b1.disk_name /\ b2.disk_id = b1.disk_id
    /\ b2.dos_type = b1.dos_type /\ b2.tracks = b1.tracks

\* the second of two operations on the same valid address undoes the first
Undoes(h1, h2, first, second, was_free) ==
    ( /\ h1.op = first /\ h2.op = second
      /\ h1.track = h2.track /\ h1.sector = h2.sector
      /\ ~BamInvalid(h1.before, h1.track, h1.sector)
      /\ BamBit(h1.before, h1.track, h1.sector) = was_free )
    => /\ h1.err = "Ok" /\ h2.err = "Ok"
       /\ BamBit(h2.before, h1.track, h1.sector) = ~was_free
       /\ h2.before.free_sectors[h1.track - 1]
             = h1.before.free_sectors[h1.track - 1] + (IF was_free THEN -1 ELSE 1)
       /\ SameButTrack(h1.before, h2.before, h1.track)
       /\ cur_bam = h1.before

\* an operation on a valid address already in the state it asks for changes nothing
Repeats(h, op, is_free) ==
    ( /\ h.op = op
      /\ ~BamInvalid(h.before, h.track, h.sector)
      /\ BamBit(h.before, h.track, h.sector) = is_free )
    => h.err = "Ok" /\ cur_bam = h.before

\* an operation on a valid address returns Ok
Completes(h) ==
    ~BamInvalid(h.before, h.track, h.sector) => h.err = "Ok"

\* C5: on a valid address of any map the program reads, allocate and free
\* return Ok; allocate on a free sector followed by free, and free on an
\* allocated sector followed by allocate, restore the track's free count and
\* bitmap bit exactly and change no other track; allocate on an allocated
\* sector and free on a free sector change nothing.
C5_AllocateFreeInverse ==
    /\ hist # <<>> => Completes(hist[Len(hist)])
    /\ Len(hist) = 2 =>
          /\ Undoes(hist[1], hist[2], "allocate", "free", TRUE)
          /\ Undoes(hist[1], hist[2], "free", "allocate", FALSE)
    /\ hist # <<>> =>
          /\ Repeats(hist[Len(hist)], "allocate", FALSE)
          /\ Repeats(hist[Len(hist)], "free", TRUE)

----------------------------------------------------------------------------
(* SpecFindFree: find_free_sector on the BAM of an image read from a file,   *)
(* whose bitmaps may hold anything                                           *)

\* the number of bits set in the bitmap drawn
MaxSetBits == 2

\* the tracks whose bitmap is drawn: one of each sector count
FindTracks == {1, 18, 25, 31}

\* the sets of at most n of the 24 bit positions of a track's bitmap
RECURSIVE BitSets(_)
BitSets(n) ==
    IF n = 0 THEN {{}}
    ELSE LET smaller == BitSets(n - 1) IN
         smaller \cup {S \cup {k} : S \in smaller, k \in 0..23}

\* the bitmap byte b with exactly the bits of S that fall in it set
RECURSIVE ByteOfBits(_, _, _)
ByteOfBits(S, b, bit_idx) ==
    IF bit_idx > 7 THEN 0
    ELSE (IF b * 8 + bit_idx \in S THEN 2 ^ bit_idx ELSE 0) + ByteOfBits(S, b, bit_idx + 1)

\* a BAM sector that holds, for `track`, the bitmap with the bits of S set
BamBlockWith(track, S) ==
    [i \in 0..255 |->
        IF i \in (5 + (track - 1) * 4)..(7 + (track - 1) * 4)
        THEN ByteOfBits(S, i - (5 + (track - 1) * 4), 0)
        ELSE 0]

\* the bitmaps drawn: at most MaxSetBits bits set, and all but at most one set
Bitmaps == BitSets(MaxSetBits) \cup {(0..23) \ S : S \in BitSets(1)}

InitFindFree ==
    /\ \E tr \in {35, 40}, t \in FindTracks, S \in Bitmaps :
          LET img == D64_from_file(tr, CopyAt(ZeroData, sector_offset(tr, 18, 0).val,
                                                  BamBlockWith(t, S)))
          IN  tracks = img.tracks /\ data = img.data
    /\ cur_bam = NoBam
    /\ res = Result("from_file", <<>>, "Ok", <<>>)
    /\ walk = WalkIdle
    /\ overflow_checks = TRUE
    /\ files = <<>>
    /\ label = NoLabels
    /\ hist = <<>>

NextFindFree ==
    \/ ReadBam
    \/ \E t \in FindTracks \cup {0, 41} : BamFindFree(t)

SpecFindFree == InitFindFree /\ [][NextFindFree]_vars

\* the valid sectors of `track` that bitmap marks free
FreeValid(b, track) == {k \in 0..(Spt(track) - 1) : BamBit(b, track, k)}

\* C6: for every bitmap content find_free_sector(track) returns the lowest
\* sector below the track's sector count whose bit is set, and None exactly
\* when no bit below the sector count is set.
C6_FindFreeSoundComplete ==
    (res.op = "find_free" /\ res.args[1] \in 1..tracks) =>
        LET free == FreeValid(cur_bam, res.args[1]) IN
        IF free = {} THEN res.err = "None"
        ELSE /\ res.err = "Ok"
             /\ res.val \in free
             /\ \A k \in free : res.val <= k

\* None was returned for a track whose bitmap has only a meaningless high bit set
C6_Witness ==
    /\ res.op = "find_free" /\ res.args = <<31>> /\ res.err = "None"
    /\ cur_bam.bitmap[30] = [b \in 0..2 |-> IF b = 2 THEN 2 ELSE 0]

----------------------------------------------------------------------------
(* SpecCap: inserts into the one directory sector format creates             *)

\* the inserts attempted after a format: one more than the directory holds
MaxCapInserts == 9

\* the files inserted: two names with contents that differ
CapFiles == {<<NameA, HelloWorld>>, <<NameSixteen, <<0, 9, 0>>>>}

NextCap ==
    \/ Format(NameTestDisk, <<50, 65>>)
    \/ \E p \in CapFiles : InsertUpTo(MaxCapInserts, p[1], p[2])

SpecCap == Init /\ [][NextCap]_vars

\* slot k (0..7) of the first directory sector as it is now
DirSlot(k) ==
    LET block == read_sector(tracks, data, 18, 1).val IN
    [i \in 0..31 |-> block[32 * k + i]]

----------------------------------------------------------------------------
(* SpecWalk: trace_file and extract_file followed one sector read at a time  *)
(* on an image whose data sectors the write command may overwrite            *)

\* a file of more than one sector
WalkContent == Pattern(2 * MaxContentLen)

\* a sector holding nothing but its two link bytes
LinkBlock(next_track, next_sector) ==
    [i \in 0..255 |-> IF i = 0 THEN next_track ELSE IF i = 1 THEN next_sector ELSE 0]

\* the sector overwritten: the second of the file's chain
WalkTargets == {<<1, 1>>}

\* the links written: back to the first sector of the chain, to the sector
\* itself, and an end of file
WalkLinks == {<<1, 0>>, <<1, 1>>, <<0, 3>>}

NextWalk ==
    \/ Format(NameTestDisk, <<50, 65>>)
    \/ InsertUpTo(1, NameSixteen, WalkContent)
    \/ \E a \in WalkTargets, l \in WalkLinks : RawWrite(a[1], a[2], LinkBlock(l[1], l[2]))
    \/ \E op \in {"trace", "extract"} : StartWalk(op, NameSixteen)
    \/ WalkOn

SpecWalk == Init /\ [][NextWalk]_vars

\* C10: a walk of a file's chain never goes on to read a sector it has read
\* already: with each sector read at most once, trace and extract end within
\* as many reads as the image has sectors, whatever the chain holds.
C10_WalkNeverRevisits ==
    walk.pc = "reading" => <<walk.track, walk.sector>> \notin walk.visited

----------------------------------------------------------------------------
(* Lookups that find no entry                                                *)

\* C11: find_file, and so extract_file, returns FileNotFound whenever no
\* visible directory entry has the name asked for: here, whenever no file of
\* that name was inserted, and in particular on a freshly formatted image
\* whose directory is still empty.
C11_MissingNameNotFound ==
    ( /\ res.op = "extract"
      /\ \A i \in 1..Len(files) : files[i].name # res.args[1] )
    => res.err = "FileNotFound"

----------------------------------------------------------------------------
(* SpecCodec: ascii_to_petscii followed by petscii_to_ascii on short texts   *)

\* the longest text drawn
MaxTextLen == 3

\* space, 'A', '_', 'a', 'z', and two characters outside both ranges: '`'
\* and e-acute
TextChars == {32, 65, 95, 97, 122, 96, 233}

RECURSIVE TextsUpTo(_)
TextsUpTo(n) ==
    IF n = 0 THEN {<<>>}
    ELSE LET shorter == TextsUpTo(n - 1) IN
         shorter \cup {Append(t, c) : t \in {u \in shorter : Len(u) = n - 1}, c \in TextChars}

\* petscii_to_ascii(&ascii_to_petscii(text))
CodecRoundTrip(text) ==
    /\ res' = Result("codec", <<text>>, "Ok", petscii_to_ascii(ascii_to_petscii(text)))
    /\ UNCHANGED <<tracks, data, cur_bam, walk, overflow_checks, files, label, hist>>

NextCodec == \E text \in TextsUpTo(MaxTextLen) : CodecRoundTrip(text)

SpecCodec == InitNoImage /\ [][NextCodec]_vars

IsLower(c) == c >= 97 /\ c <= 122

\* every character is in the pass-through range or a lowercase letter
InCodecDomain(s) == \A k \in 1..Len(s) : (s[k] >= 32 /\ s[k] <= 95) \/ IsLower(s[k])

\* C12 as stated: the round trip returns s for every s of pass-through
\* characters and lowercase letters, lowercase letters included.
C12_RoundTripWithLowercase ==
    (res.op = "codec" /\ InCodecDomain(res.args[1])) => res.val = res.args[1]

\* C12, amended: for s of pass-through characters and lowercase letters the
\* round trip returns s with every lowercase letter replaced by its uppercase
\* letter; it returns s itself exactly when s holds no lowercase letter.
C12_RoundTripFoldsCase ==
    (res.op = "codec" /\ InCodecDomain(res.args[1])) =>
        LET s == res.args[1] IN
        /\ res.val = [k \in 1..Len(s) |-> IF IsLower(s[k]) THEN s[k] - 32 ELSE s[k]]
        /\ (res.val = s) <=> (\A k \in 1..Len(s) : ~IsLower(s[k]))

\* "a_z" came back as "A_Z"
C12_Witness ==
    res.op = "codec" /\ res.args = <<<<97, 95, 122>>>> /\ res.val = <<65, 95, 90>>

----------------------------------------------------------------------------
(* The free-space map format writes                                          *)

\* C13: after format on a 35- or 40-track image every track other than 18
\* has free count sectors_per_track(t) with every bit below that count set,
\* and track 18 alone has free count 0 with all bits clear.
C13_FormatFreesAllButTrack18 ==
    (res.op = "format" /\ res.err = "Ok") =>
        LET b == read_bam(tracks, data) IN
        \A t \in 1..tracks :
            IF t = 18
            THEN /\ b.free_sectors[t - 1] = 0
                 /\ \A k \in 0..23 : ~BamBit(b, t, k)
            ELSE /\ b.free_sectors[t - 1] = Spt(t)
                 /\ \A k \in 0..(Spt(t) - 1) : BamBit(b, t, k)

----------------------------------------------------------------------------
(* SpecAlloc: the allocate and free commands, each of which decodes the BAM  *)
(* from the image, changes it and writes it back                             *)

\* D64::free_sector(track, sector)
D64Free(track, sector) ==
    /\ tracks # 0
    /\ walk.pc # "reading"
    /\ LET r == D64_free_sector(tracks, data, track, sector, overflow_checks) IN
       /\ data' = IF r.err = "Ok" THEN r.val ELSE data
       /\ res' = Result("d64_free", <<track, sector>>, r.err, <<>>)
    /\ UNCHANGED <<tracks, cur_bam, walk, overflow_checks, files, label, hist>>

\* a valid address on track 1, one each on two tracks only a 40-track image
\* has, and addresses out of range by track and by sector
AllocArgs == {<<0, 0>>, <<1, 20>>, <<1, 21>>, <<36, 16>>, <<40, 9>>, <<41, 0>>}

\* an image file of either size that format("TEST DISK", "2A") has written,
\* loaded by from_file
InitFormatted ==
    /\ \E tr \in {35, 40} :
          LET img == D64_from_file(tr, D64_format(tr, NameTestDisk, <<50, 65>>).val)
          IN  tracks = img.tracks /\ data = img.data
    /\ cur_bam = NoBam
    /\ res = Result("from_file", <<>>, "Ok", <<>>)
    /\ walk = WalkIdle
    /\ overflow_checks \in BOOLEAN
    /\ files = <<>>
    /\ label = [img |-> [name |-> NameTestDisk, id |-> <<50, 65>>], mem |-> NoLabel]
    /\ hist = <<>>

NextAlloc ==
    \/ Format(NameTestDisk, <<50, 65>>)
    \/ \E p \in AllocArgs : D64Allocate(p[1], p[2])
    \/ \E p \in AllocArgs : D64Free(p[1], p[2])

SpecAlloc == InitFormatted /\ [][NextAlloc]_vars

\* C14: from a freshly formatted image on, after any sequence of allocate
\* and free calls, valid or out of range, the stored free count of every
\* track equals the number of set bits of its bitmap below the track's
\* sector count and lies in 0..sectors_per_track(t); no call panics on the
\* 8-bit counter.
C14_CountMatchesBitmap ==
    label.img.name # <<>> =>
        /\ res.err # "Panic"
        /\ LET b == read_bam(tracks, data) IN
           \A t \in 1..tracks :
               /\ b.free_sectors[t - 1] = Cardinality(FreeValid(b, t))
               /\ b.free_sectors[t - 1] \in 0..Spt(t)

----------------------------------------------------------------------------
(* SpecBoundary: allocate_sector, free_sector and find_free_sector of a held *)
(* BAM value, called with tracks in and out of range                         *)

\* track 0, a valid track, the first track past a 35-track image, and the
\* first track past every image
BoundTracks == {0, 1, 36, 41}

NextBoundary ==
    \/ Format(NameTestDisk, <<50, 65>>)
    \/ ReadBam
    \/ \E t \in BoundTracks : BamAllocate(t, 0)
    \/ \E t \in BoundTracks : BamFree(t, 0)
    \/ \E t \in BoundTracks : BamFindFree(t)

SpecBoundary == InitBam /\ [][NextBoundary]_vars

\* the last call on the held BAM named track 0 or a track past its track count
OutOfRangeCall ==
    /\ cur_bam.tracks # 0
    /\ res.op \in {"allocate", "free", "find_free"}
    /\ (res.args[1] = 0 \/ res.args[1] > cur_bam.tracks)

\* C15 as stated: allocate, free and findFree with track 0 or a track past
\* the image's track count each fail with InvalidTrackSector and leave the
\* map unchanged.
C15_OutOfRangeIsInvalidAddress ==
    OutOfRangeCall =>
        /\ res.err = "InvalidTrackSector"
        /\ res.op # "find_free" => hist[Len(hist)].before = cur_bam

----------------------------------------------------------------------------
(* SpecTrace: trace_file after inserts on a formatted image                  *)

\* D64::trace_file(filename), the whole call
Trace(filename) ==
    /\ tracks # 0
    /\ walk.pc # "reading"
    /\ LET r == trace_file(tracks, data, filename) IN
       res' = Result("trace", <<filename>>, r.err, r.val)
    /\ UNCHANGED <<tracks, data, cur_bam, walk, overflow_checks, files, label, hist>>

NextTrace ==
    \/ Format(NameTestDisk, <<50, 65>>)
    \/ \E f \in FileNames, c \in {HelloWorld, <<0, 9, 0>>} : Insert(f, c)
    \/ \E f \in FileNames : Trace(f)

SpecTrace == Init /\ [][NextTrace]_vars

\* C16: on a freshly formatted 35-track image with two files inserted one
\* after the other, trace of the first file's name returns a non-empty
\* sequence of (track, sector) pairs whose first element is on track 18.
C16_TraceStartsOnTrack18 ==
    ( /\ res.op = "trace"
      /\ tracks = 35 /\ label.img.name # <<>>
      /\ Len(files) = 2 /\ DistinctNames
      /\ res.args[1] = files[1].name )
    => /\ res.err = "Ok"
       /\ res.val # <<>>
       /\ res.val[1][1] = 18

----------------------------------------------------------------------------
(* SpecDir: list_files on directory chains the write command has rewired     *)

\* the directory sectors overwritten
DirTargets == {1, 2, 18}

\* the links written: the loop back to (18,1), the other two targets, a
\* sector past track 18's count, and another track
DirLinks == {<<18, 1>>, <<18, 2>>, <<18, 18>>, <<18, 19>>, <<17, 2>>}

\* a directory sector with the given link and one entry, "A", in its second slot
DirBlock(next_track, next_sector) ==
    PutEntry(LinkBlock(next_track, next_sector), 32, create_dir_entry(NameA, 1, 0).val)

NextDir ==
    \/ \E s \in DirTargets, l \in DirLinks : RawWrite(18, s, DirBlock(l[1], l[2]))
    \/ List

\* the bytes of a 35-track image whose directory sectors 0..18 each hold one
\* entry and link to the next sector, the last one to (18,0)
ChainData ==
    LET first  == sector_offset(35, 18, 0).val
        blk(s) == DirBlock(18, (s + 1) % 19)
        set    == {first + p[1] * 256 + p[2] :
                      p \in {q \in (0..18) \X (0..255) : blk(q[1])[q[2]] # 0}}
    IN  [o \in set |-> blk((o - first) \div 256)[(o - first) % 256]]

\* a 35-track image file, loaded by from_file: all zero, or with the
\* directory chain (18,1) -> (18,2) -> ... -> (18,18) -> (18,0) -> (18,1)
InitDir ==
    /\ \E bytes \in {ZeroData, ChainData} :
          LET img == D64_from_file(35, bytes)
          IN  tracks = img.tracks /\ data = img.data
    /\ cur_bam = NoBam
    /\ res = Result("from_file", <<>>, "Ok", <<>>)
    /\ walk = WalkIdle
    /\ overflow_checks = TRUE
    /\ files = <<>>
    /\ label = NoLabels
    /\ hist = <<>>

SpecDir == InitDir /\ [][NextDir]_vars

\* the link bytes of directory sector (18, s) in the image as it is now
DirLink(s) ==
    LET block == read_sector(tracks, data, 18, s).val IN <<block[0], block[1]>>

\* The directory chain as the claim reads it: from `path`, whose last sector
\* is being read, follow links until one ends the chain ("end"), leaves
\* track 18 or its sector count ("stray"), or names a sector already on the
\* path ("cycle").
RECURSIVE DirPath(_)
DirPath(path) ==
    LET l == DirLink(path[Len(path)]) IN
    IF l[1] = 0 \/ l = <<18, 1>> THEN [path |-> path, ends |-> "end"]
    ELSE IF l[1] # 18 \/ l[2] >= 19 THEN [path |-> path, ends |-> "stray"]
    ELSE IF \E k \in 1..Len(path) : path[k] = l[2] THEN [path |-> path, ends |-> "cycle"]
    ELSE DirPath(Append(path, l[2]))

\* C17: list_files stops normally where a directory sector's next-track byte
\* is 0 or its link is (18,1); it returns an error where the link leaves
\* track 18 or names a sector >= 19, and where it leads to a sector already
\* visited; it reads each directory sector at most once, so at most 19.
C17_ListDetectsCorruptChains ==
    res.op = "list" =>
        LET w     == DirPath(<<1>>)
            reads == ListVisitedFrom(tracks, data, 1, {})
        IN  /\ reads = {w.path[k] : k \in 1..Len(w.path)}
            /\ Cardinality(reads) = Len(w.path)
            /\ Len(w.path) <= 19
            /\ (w.ends = "end") <=> (res.err = "Ok")
            /\ (w.ends = "end") => Len(res.val) <= Len(w.path)
            /\ (w.ends # "end") => res.err = "InvalidTrackSector"

\* list_files returned an error on the chain (18,1) -> (18,2) -> (18,2)
C17_Witness ==
    /\ res.op = "list" /\ res.err = "InvalidTrackSector"
    /\ DirLink(1) = <<18, 2>> /\ DirLink(2) = <<18, 2>>

----------------------------------------------------------------------------
(* SpecId: set_disk_id with ids of every length from 0 to 3 on the BAM of a  *)
(* new or formatted image                                                     *)

\* "", "2", "2A", "01", "012"
IdArgs == {<<>>, <<50>>, <<50, 65>>, <<48, 49>>, <<48, 49, 50>>}

NextId ==
    \/ Format(NameTestDisk, <<50, 65>>)
    \/ ReadBam
    \/ \E id \in IdArgs : BamSetDiskId(id)
    \/ WriteBam

SpecId == InitImage /\ [][NextId]_vars

\* C18: set_disk_id given an id of fewer than 2 characters (the empty string
\* included) produces an error outcome, never an abort.
C18_ShortIdIsError ==
    (res.op = "set_disk_id" /\ Len(res.args[1]) < 2) =>
        res.err \notin {"Ok", "Panic"}
----------------------------------------------------------------------------
(* SpecSector: write_sector and read_sector at addresses in and out of       *)
(* range, on a new image of either size                                       *)

\* 256-byte blocks: all 0xFF, the bytes 0, 1, ..., 255, and all zero
Blocks ==
    {[i \in 0..255 |-> 255], [i \in 0..255 |-> i], [i \in 0..255 |-> 0]}

\* track 0, the first two sectors of the image, the sector after the last of
\* track 1, and the last sector of a 40-track image (a track a 35-track
\* image does not have)
SectorArgs == {<<0, 0>>, <<1, 0>>, <<1, 1>>, <<1, 21>>, <<40, 16>>}

\* d64.write_sector(track, sector, &block); hist keeps the buffer as it was
WriteSector(track, sector, block) ==
    /\ tracks # 0
    /\ LET r == write_sector(tracks, data, track, sector, block) IN
       /\ data' = IF r.err = "Ok" THEN r.val ELSE data
       /\ res' = Result("write_sector", <<track, sector, block>>, r.err, <<>>)
    /\ hist' = <<[op |-> "write_sector", track |-> track, sector |-> sector,
                  block |-> block, before |-> data]>>
    /\ UNCHANGED <<tracks, cur_bam, walk, overflow_checks, files, label>>

\* d64.read_sector(track, sector)
ReadSector(track, sector) ==
    /\ tracks # 0
    /\ LET r == read_sector(tracks, data, track, sector) IN
       res' = Result("read_sector", <<track, sector>>, r.err, r.val)
    /\ UNCHANGED <<tracks, data, cur_bam, walk, overflow_checks, files, label, hist>>

NextSector ==
    \/ \E a \in SectorArgs, b \in Blocks : WriteSector(a[1], a[2], b)
    \/ \E a \in SectorArgs : ReadSector(a[1], a[2])

SpecSector == InitImage /\ [][NextSector]_vars

\* (track, sector) is an address of an image of tr tracks
ValidAddress(tr, track, sector) ==
    track >= 1 /\ track <= tr /\ sector < SECTORS_PER_TRACK[track]

\* the bytes of d and e agree everywhere outside [lo, lo + 256)
SameOutside(d, e, lo) ==
    \A o \in (DOMAIN d) \cup (DOMAIN e) :
        (o < lo \/ o >= lo + 256) => Byte(d, o) = Byte(e, o)

\* C19: write_sector(t, s, b) with a valid address and a 256-byte block b makes
\* read_sector(t, s) return b and leaves every byte outside that sector's
\* 256-byte range unchanged; with an invalid address it returns
\* InvalidTrackSector and leaves the whole buffer unchanged.
C19_WriteReadFrame ==
    /\ res.op = "write_sector" =>
          LET w == hist[1] IN
          IF ValidAddress(tracks, w.track, w.sector)
          THEN /\ res.err = "Ok"
               /\ read_sector(tracks, data, w.track, w.sector) = Ok(w.block)
               /\ SameOutside(data, w.before,
                              TrackStart(w.track) + w.sector * 256)
               /\ \A o \in DOMAIN data : o < DataLen(tracks)
          ELSE /\ res.err = "InvalidTrackSector"
               /\ data = w.before
    /\ (res.op = "read_sector" /\ hist # <<>>
            /\ res.args = <<hist[1].track, hist[1].sector>>) =>
          IF ValidAddress(tracks, res.args[1], res.args[2])
          THEN res.err = "Ok" /\ res.val = hist[1].block
          ELSE res.err = "InvalidTrackSector"

\* a write over a sector that held other bytes, next to a sector that holds
\* non-zero bytes, read back
C19_Witness ==
    /\ res.op = "read_sector" /\ res.err = "Ok" /\ hist # <<>>
    /\ res.args = <<1, 1>> /\ hist[1].track = 1 /\ hist[1].sector = 1
    /\ res.val = [i \in 0..255 |-> i]
    /\ \E o \in DOMAIN hist[1].before : o >= 256 /\ o < 512
    /\ Byte(data, 255) = 255 /\ Byte(data, DataLen(tracks) - 1) = 255
----------------------------------------------------------------------------
(* SpecCross: files inserted at every start sector of track 1, so that some  *)
(* chains run over the end of the track                                       *)

\* the last track whose sectors are marked allocated one by one
MaxFillTrack == 1

\* Commands::FindFreeSector: d64.find_free_sector(), the address printed
FindFreeSector ==
    /\ tracks # 0
    /\ walk.pc # "reading"
    /\ LET f == D64_find_free_sector(tracks, data) IN
       res' = Result("d64_find_free", <<>>, f.err, f.val)
    /\ UNCHANGED <<tracks, data, cur_bam, walk, overflow_checks, files, label, hist>>

\* the addresses allocate-sector is run with: the one find-free-sector has
\* just printed, while it is on a track up to MaxFillTrack
PrintedAddress ==
    IF res.op = "d64_find_free" /\ res.err = "Ok" /\ res.val[1] <= MaxFillTrack
    THEN {res.val}
    ELSE {}

\* contents of 2 and of 3 sectors
CrossContents == {Pattern(2 * MaxContentLen), Pattern(2 * MaxContentLen + 1)}

NextCross ==
    \/ Format(NameTestDisk, <<50, 65>>)
    \/ FindFreeSector
    \/ \E p \in PrintedAddress : D64Allocate(p[1], p[2])
    \/ \E c \in CrossContents : InsertUpTo(1, NameSixteen, c)
    \/ Extract(NameSixteen)

SpecCross == Init /\ [][NextCross]_vars

\* the sectors a content of n bytes takes
SectorsOf(n) == (n + 253) \div 254

\* the chain of a file of n bytes that starts at sector goes past the last
\* sector of its track
CrossesTrack(track, sector, n) == sector + SectorsOf(n) > SECTORS_PER_TRACK[track]

\* C20: extract(name) of a file whose chain crosses a track boundary returns
\* the full content in order (the link bytes of each non-terminal sector being
\* the address of the next chunk, also when that is (track+1, 0)).
C20_CrossTrackExtract ==
    (/\ res.op = "extract"
     /\ Len(files) = 1
     /\ files[1].name = res.args[1]
     /\ CrossesTrack(files[1].start[1], files[1].start[2], Len(files[1].content)))
        => res.err = "Ok" /\ res.val = files[1].content
----------------------------------------------------------------------------
(* SpecFind: find_file for a name no entry holds, and list_files, on the     *)
(* directory of a formatted image and on chains the write command rewired    *)

\* The directory sectors the loop of D64::find_file reads from `sector` on, in
\* order, and how the loop is left: a read error, "Found", "FileNotFound", or
\* "Hang" as in FindFileFrom.
RECURSIVE FindReadsFrom(_, _, _, _, _)
FindReadsFrom(tr, d, filename, sector, reads) ==
    LET r    == read_sector(tr, d, 18, sector)
        seen == Append(reads, sector)
    IN  IF r.err # "Ok" THEN [reads |-> seen, ends |-> r.err]
        ELSE IF Matches(r.val, filename) # {} THEN [reads |-> seen, ends |-> "Found"]
        ELSE IF r.val[1] = 0 THEN [reads |-> seen, ends |-> "FileNotFound"]
        ELSE IF \E k \in 1..Len(seen) : seen[k] = r.val[1]
             THEN [reads |-> seen, ends |-> "Hang"]
        ELSE FindReadsFrom(tr, d, filename, r.val[1], seen)

\* The directory sectors the loop of D64::list_files reads from `sector` on,
\* in order, and how the loop is left: "Ok" or the error.
RECURSIVE ListReadsFrom(_, _, _, _)
ListReadsFrom(tr, d, sector, reads) ==
    IF \E k \in 1..Len(reads) : reads[k] = sector
    THEN [reads |-> reads, ends |-> "InvalidTrackSector"]
    ELSE LET r    == read_sector(tr, d, 18, sector)
             seen == Append(reads, sector)
         IN  IF r.err # "Ok" THEN [reads |-> seen, ends |-> r.err]
             ELSE LET next_track  == r.val[0]
                      next_sector == r.val[1]
                  IN  IF next_track = 0 \/ (next_track = 18 /\ next_sector = 1)
                      THEN [reads |-> seen, ends |-> "Ok"]
                      ELSE IF next_track # 18 \/ next_sector >= SECTORS_PER_TRACK[18]
                      THEN [reads |-> seen, ends |-> "InvalidTrackSector"]
                      ELSE ListReadsFrom(tr, d, next_sector, seen)

\* the directory sectors overwritten
FindTargets == {1, 2}

\* the links written: a next-track byte of 0 with sector 0 and with sector 2,
\* the loop back to (18,1), the second sector, and sector 2 of another track
FindLinks == {<<0, 0>>, <<0, 2>>, <<18, 1>>, <<18, 2>>, <<17, 2>>}

NextFind ==
    \/ Format(NameTestDisk, <<50, 65>>)
    \/ \E s \in FindTargets, l \in FindLinks : RawWrite(18, s, DirBlock(l[1], l[2]))
    \/ List
    \/ Extract(NameSixteen)

SpecFind == Init /\ [][NextFind]_vars

\* no visible entry of the directory track holds `filename`
Absent(filename) ==
    \A s \in 0..18 : Matches(read_sector(tracks, data, 18, s).val, filename) = {}

\* C21: find_file for a name that is not present reads exactly the directory
\* sectors list_files reads, in the same order, and ends where it ends: not
\* found where list_files returns its list, an error where it returns an
\* error, and never without an end.
C21_FindWalksAsList ==
    (res.op = "extract" /\ Absent(res.args[1])) =>
        LET f == FindReadsFrom(tracks, data, res.args[1], 1, <<>>)
            l == ListReadsFrom(tracks, data, 1, <<>>)
        IN  /\ res.err = f.ends
            /\ f.reads = l.reads
            /\ (f.ends = "FileNotFound") <=> (l.ends = "Ok")
            /\ f.ends # "Hang"
----------------------------------------------------------------------------
(* SpecPad: the name fields format and insert_file write, for names shorter  *)
(* than and as long as the field, on images of either size                   *)

\* "A", "TEST FILE" and a name of 16 characters
PadFileNames == {NameA, NameTestFile, NameSixteen}

NextPad ==
    \/ \E n \in DiskNames : Format(n, <<50, 65>>)
    \/ \E f \in PadFileNames : InsertUpTo(MaxInserts, f, HelloWorld)
    \/ List

SpecPad == InitImage /\ [][NextPad]_vars

\* the 16-byte field that holds the encoded name followed by the fill byte 0xA0
Padded(name) ==
    LET name_bytes == ascii_to_petscii(name) IN
    [i \in 0..15 |-> IF i < Len(name_bytes) THEN name_bytes[i + 1] ELSE 160]

\* bytes 144..159 of the sector (18,0) as it is now
DiskNameField ==
    LET block == read_sector(tracks, data, 18, 0).val IN [i \in 0..15 |-> block[144 + i]]

\* C22: for every name of fewer than 16 characters, the name field
\* create_dir_entry writes (entry bytes 5..20) and the disk-name field format
\* writes (bytes 144..159 of sector (18,0)) hold the encoded name followed by
\* 0xA0 in every remaining position, the padding set_disk_name applies.
C22_NameFieldsPadded ==
    /\ (res.op = "format" /\ res.err = "Ok" /\ Len(res.args[1]) < 16) =>
          DiskNameField = Padded(res.args[1])
    /\ (res.op = "insert" /\ res.err = "Ok" /\ Len(res.args[1]) < 16) =>
          [i \in 0..15 |-> DirSlot(Len(files) - 1)[5 + i]] = Padded(res.args[1])
----------------------------------------------------------------------------
(* SpecAppend: insert_file's directory append on the directory format wrote  *)
(* and on two-sector chains the write command built                           *)

\* the directory sectors overwritten
AppendTargets == {1, 2}

\* the links written: to the second directory sector, and the end of the chain
AppendLinks == {<<18, 2>>, <<0, 0>>}

NextAppend ==
    \/ Format(NameTestDisk, <<50, 65>>)
    \/ \E s \in AppendTargets, l \in AppendLinks : RawWrite(18, s, DirBlock(l[1], l[2]))
    \/ \E f \in {NameSixteen, NameTestFile} : InsertUpTo(MaxInserts, f, HelloWorld)
    \/ List

SpecAppend == Init /\ [][NextAppend]_vars

\* the link bytes of directory sector (18, s) in image d
LinkOf(d, s) ==
    LET block == read_sector(tracks, d, 18, s).val IN <<block[0], block[1]>>

\* C23: the directory append of a successful insert leaves the link bytes 0-1
\* of every directory sector unchanged, also when the chosen slot is slot 0;
\* so list_files, where it returned a list before, returns one entry more
\* after, the entries of later sectors of the chain included.
C23_AppendKeepsChain ==
    (res.op = "insert" /\ res.err = "Ok") =>
        LET before == hist[1].data
            was    == list_files(tracks, before)
            now    == list_files(tracks, data)
        IN  /\ \A s \in 1..18 : LinkOf(data, s) = LinkOf(before, s)
            /\ was.err = "Ok" => now.err = "Ok" /\ Len(now.val) = Len(was.val) + 1
----------------------------------------------------------------------------
(* SpecReserved: insert_file on formatted images whose first free sector is  *)
(* (1,0) or one of the last sectors of track 17, the track before the BAM    *)
(* and directory track                                                        *)

\* byte with its n lowest bits cleared
ClearLow(byte, n) ==
    IF n <= 0 THEN byte ELSE IF n >= 8 THEN 0 ELSE (byte \div (2 ^ n)) * (2 ^ n)

\* bam after allocate_sector of every sector of tracks 1..track-1 and of
\* sectors 0..sector-1 of `track`, all of them free in bam
FilledBam(bam, track, sector) ==
    LET taken(t) == IF t < track THEN SECTORS_PER_TRACK[t]
                    ELSE IF t = track THEN sector ELSE 0
    IN  [bam EXCEPT
           !.free_sectors = [t \in 0..39 |-> bam.free_sectors[t] - taken(t + 1)],
           !.bitmap = [t \in 0..39 |->
                          [b \in 0..2 |-> ClearLow(bam.bitmap[t][b], taken(t + 1) - 8 * b)]]]

\* the first free sector of the image: (1,0) and the last three of track 17
FillStarts == {<<1, 0>>, <<17, 18>>, <<17, 19>>, <<17, 20>>}

\* a 35-track image file that format("TEST DISK", "2A") and then
\* allocate_sector of every sector before the chosen one have written
InitFilled ==
    /\ \E p \in FillStarts :
          LET formatted == D64_format(35, NameTestDisk, <<50, 65>>).val
              img == D64_from_file(35,
                        write_bam(35, formatted,
                                  FilledBam(read_bam(35, formatted), p[1], p[2])))
          IN  tracks = img.tracks /\ data = img.data
    /\ cur_bam = NoBam
    /\ res = Result("from_file", <<>>, "Ok", <<>>)
    /\ walk = WalkIdle
    /\ overflow_checks = TRUE
    /\ files = <<>>
    /\ label = [img |-> [name |-> NameTestDisk, id |-> <<50, 65>>], mem |-> NoLabel]
    /\ hist = <<>>

\* contents of 1, 2, 3 and 4 sectors
ReservedContents ==
    {HelloWorld, Pattern(2 * MaxContentLen), Pattern(2 * MaxContentLen + 1),
     Pattern(3 * MaxContentLen + 1)}

NextReserved ==
    \/ \E c \in ReservedContents : InsertUpTo(MaxInserts, NameSixteen, c)
    \/ List
    \/ ReadBam

SpecReserved == InitFilled /\ [][NextReserved]_vars

\* C24: insert_file writes payload sectors only at addresses other than (18,0)
\* and (18,1): after any insert on a formatted image, successful or failed,
\* the disk name, the disk id and the free counts of the BAM are what they
\* were, and list_files still returns the entries the directory held.
C24_ReservedSectorsIntact ==
    res.op = "insert" =>
        LET before == hist[1].data
            was    == read_bam(tracks, before)
            now    == read_bam(tracks, data)
            had    == list_files(tracks, before)
            has    == list_files(tracks, data)
        IN  /\ now.disk_name = was.disk_name
            /\ now.disk_id = was.disk_id
            /\ now.free_sectors = was.free_sectors
            /\ had.err = "Ok" =>
                  /\ has.err = "Ok"
                  /\ Len(has.val) >= Len(had.val)
                  /\ \A k \in 1..Len(had.val) : has.val[k] = had.val[k]
============================================================================
